---- MODULE Spec2Model ----
(***************************************************************************)
(* lokat: locale dictionaries with an instance-scoped, single-flight       *)
(* cache.                                                                  *)
(*                                                                         *)
(*   SpecCore   createLokat (packages/core/src/index.ts): load(locale)     *)
(*              over the instance cache Map<string, Promise<dict>>.        *)
(*   SpecSolid  createSolidLokat (packages/solid-x/src/index.ts): locale   *)
(*              signal, current dictionary, cache, setLocale and preload.  *)
(*                                                                         *)
(* JavaScript runs one job at a time; a promise reaction (a .then/.catch   *)
(* handler, the continuation of an await) is a job of its own.  Every      *)
(* action below is one such job, or one synchronous call made by the       *)
(* embedding program, and the actions interleave freely.                   *)
(* The caller-supplied loader (fetcher, loadLocale) returns a promise and  *)
(* settles it with any dictionary or any error, at any later time.         *)
(***************************************************************************)
EXTENDS Integers, Sequences, FiniteSets, TLC

VARIABLES
  cache,        \* core: cache Map, locale -> attempt id (its promise) or NoEntry
  attempts,     \* core: the promises created by load, in creation order
  calls,        \* core: the load() calls made so far and what each caller saw
  locale,       \* solid: the locale signal
  currentDict,  \* solid: let currentDict, read by t
  dictSignal,   \* solid: the dictionary signal
  solidCache,   \* solid: cache Map, locale -> promise id or NoEntry
  promises,     \* solid: the promises returned by options.loadLocale
  frames,       \* solid: the activations of async load(l), with set's .catch
  ops,          \* solid: the setLocale / preload calls made so far
  log,          \* solid: the caller-supplied functions invoked, in order
  opts,         \* solid: the options the instance was constructed with
  other,        \* core: a second createLokat instance (its cache, promises, calls)
  input,        \* the arguments of a call of a synchronous function
  output        \* what that call returned ("none" before the call)

coreVars == <<cache, attempts, calls>>
solidVars == <<locale, currentDict, dictSignal, solidCache, promises, frames, ops, log, opts>>
pureVars == <<input, output>>
vars == <<cache, attempts, calls, locale, currentDict, dictSignal, solidCache,
          promises, frames, ops, log, opts, other, input, output>>

\* Bounds of the model.
MaxLoads == 3
MaxOps == 2

Locales == {"en", "id"}
Dicts == {"dA", "dB"}
Errs == {"e1", "e2"}
NoEntry == 0

(***************************************************************************)
(* createLokat                                                             *)
(***************************************************************************)

\* Mutation: load does not look for an entry before it inserts one.
CacheGet_Miss(c, k) == NoEntry

\* cache.get(locale)
CacheGet(c, k) == c[k]

\* Mutation: load forgets cache.set.
CacheSet_Dropped(c, k, p) == c

\* cache.set(locale, promise)
CacheSet(c, k, p) == [c EXCEPT ![k] = p]

\* Mutation: cache.clear() instead of cache.delete(locale).
CacheDelete_Clear(c, k) == [x \in DOMAIN c |-> NoEntry]

\* cache.delete(locale)
CacheDelete(c, k) == [c EXCEPT ![k] = NoEntry]

\* The newest attempt for k made so far, NoEntry when there is none.
LastAttempt(k) ==
  LET s == {a \in 1..Len(attempts) : attempts[a].key = k}
  IN IF s = {} THEN NoEntry ELSE CHOOSE a \in s : \A b \in s : b <= a

\* State of the promise `wrapped` of attempt a ("none" for NoEntry).
WState(a) == IF a = NoEntry THEN "none" ELSE attempts[a].w

\* What the caller of load(k) is handed, with the cache as load found it.
CallRecord(k, a, fetched) ==
  [key |-> k, att |-> a, fetched |-> fetched,
   entryAtCall |-> cache[k],
   wAtCall |-> WState(cache[k]),
   lastAtCall |-> LastAttempt(k),
   lastWAtCall |-> WState(LastAttempt(k)),
   seen |-> <<"none">>,
   cacheAtSeen |-> NoEntry]

\* load(locale): the whole synchronous body.
Load(k) ==
  /\ Len(calls) < MaxLoads
  /\ LET promise == CacheGet(cache, k) IN
       IF promise = NoEntry
       THEN LET id == Len(attempts) + 1 IN
            /\ attempts' = Append(attempts,
                 [key |-> k, p |-> "pending", w |-> "pending", val |-> "none"])
            /\ cache' = CacheSet(cache, k, id)
            /\ calls' = Append(calls, CallRecord(k, id, TRUE))
       ELSE /\ calls' = Append(calls, CallRecord(k, promise, FALSE))
            /\ UNCHANGED <<cache, attempts>>
  /\ UNCHANGED <<solidVars, other, pureVars>>

\* fetcher(url).then(r => r.json()) fulfils: p holds the dictionary.
FetchResolve(a, d) ==
  /\ attempts[a].p = "pending"
  /\ attempts' = [attempts EXCEPT ![a].p = "ok", ![a].val = d]
  /\ UNCHANGED <<cache, calls>>
  /\ UNCHANGED <<solidVars, other, pureVars>>

\* The fetcher's promise, or r.json(), rejects: p holds the error.
FetchReject(a, e) ==
  /\ attempts[a].p = "pending"
  /\ attempts' = [attempts EXCEPT ![a].p = "err", ![a].val = e]
  /\ UNCHANGED <<cache, calls>>
  /\ UNCHANGED <<solidVars, other, pureVars>>

\* Mutation: the catch handler rethrows without cache.delete.
CacheAfterCatch_NoDelete(c, k, st) == c

\* Mutation: the reaction deletes the entry however p settled.
CacheAfterCatch_AlwaysDelete(c, k, st) == CacheDelete(c, k)

\* The cache after the reaction of p.catch has run for an attempt on k.
CacheAfterCatch(c, k, st) == IF st = "err" THEN CacheDelete(c, k) ELSE c

\* The reaction job of p.catch(...): on rejection the handler deletes the
\* entry and rethrows, so wrapped rejects; on fulfilment wrapped fulfils.
WrappedSettle(a) ==
  /\ attempts[a].p # "pending"
  /\ attempts[a].w = "pending"
  /\ cache' = CacheAfterCatch(cache, attempts[a].key, attempts[a].p)
  /\ attempts' = [attempts EXCEPT ![a].w = attempts[a].p]
  /\ UNCHANGED calls
  /\ UNCHANGED <<solidVars, other, pureVars>>

\* The continuation of a caller awaiting the promise load returned.
Observe(c) ==
  /\ calls[c].seen = <<"none">>
  /\ attempts[calls[c].att].w # "pending"
  /\ calls' = [calls EXCEPT
       ![c].seen = <<attempts[calls[c].att].w, attempts[calls[c].att].val>>,
       ![c].cacheAtSeen = cache[calls[c].key]]
  /\ UNCHANGED <<cache, attempts>>
  /\ UNCHANGED <<solidVars, other, pureVars>>

\* No createSolidLokat instance has been constructed.
NoSolid ==
  /\ locale = "en"
  /\ currentDict = "none"
  /\ dictSignal = "none"
  /\ solidCache = [k \in Locales |-> NoEntry]
  /\ promises = <<>>
  /\ frames = <<>>
  /\ ops = <<>>
  /\ log = <<>>
  /\ opts = [initialDict |-> FALSE, disableCache |-> FALSE]

\* A createLokat instance right after construction: new Map(), no load yet.
NewInstance ==
  [cache |-> [k \in Locales |-> NoEntry], attempts |-> <<>>, calls |-> <<>>]

\* No second createLokat instance is in use.
NoOther == other = NewInstance

\* No synchronous function is being called.
NoCall == input = [fn |-> "none"] /\ output = <<"none">>

\* new Map() at construction; the solid instance is not in use.
InitCore ==
  /\ cache = NewInstance.cache
  /\ attempts = NewInstance.attempts
  /\ calls = NewInstance.calls
  /\ NoSolid
  /\ NoOther
  /\ NoCall

NextCore ==
  \/ \E k \in Locales : Load(k)
  \/ \E a \in 1..Len(attempts) : \E d \in Dicts : FetchResolve(a, d)
  \/ \E a \in 1..Len(attempts) : \E e \in Errs : FetchReject(a, e)
  \/ \E a \in 1..Len(attempts) : WrappedSettle(a)
  \/ \E c \in 1..Len(calls) : Observe(c)

SpecCore == InitCore /\ [][NextCore]_vars

(***************************************************************************)
(* createLokat: properties                                                 *)
(***************************************************************************)

CallIds == 1..Len(calls)
AttemptIds == 1..Len(attempts)

\* C1: the fetcher is invoked for K only when the cache holds no entry for K;
\* at most one attempt for K is in flight (its promise pending) at any time;
\* a load(K) made while an attempt is pending returns that attempt's promise
\* without fetching; callers handed the same promise settle identically.
C1_SingleFlight ==
  /\ \A c \in CallIds : calls[c].fetched => calls[c].entryAtCall = NoEntry
  /\ \A k \in Locales :
       Cardinality({a \in AttemptIds :
                      attempts[a].key = k /\ attempts[a].w = "pending"}) <= 1
  /\ \A c \in CallIds :
       calls[c].lastWAtCall = "pending" =>
         /\ calls[c].att = calls[c].lastAtCall
         /\ ~calls[c].fetched
  /\ \A c1, c2 \in CallIds :
       (/\ calls[c1].att = calls[c2].att
        /\ calls[c1].seen # <<"none">>
        /\ calls[c2].seen # <<"none">>) => calls[c1].seen = calls[c2].seen

\* Three callers share one attempt, joined while it was pending, and two of
\* them have settled.
C1_Witness ==
  \E c1, c2, c3 \in CallIds :
    /\ c1 < c2 /\ c2 < c3
    /\ calls[c1].fetched
    /\ calls[c2].lastWAtCall = "pending" /\ calls[c2].att = calls[c1].att
    /\ calls[c3].lastWAtCall = "pending" /\ calls[c3].att = calls[c1].att
    /\ calls[c1].seen # <<"none">>
    /\ calls[c3].seen # <<"none">>

\* C2: a load(K) made when the latest attempt for K has rejected invokes the
\* fetcher again, is handed a new promise (never the rejected one), and
\* its caller sees the new attempt's dictionary when that attempt succeeds.
C2_RetryAfterReject ==
  \A c \in CallIds :
    /\ calls[c].lastWAtCall = "err" =>
         /\ calls[c].fetched
         /\ calls[c].att > calls[c].lastAtCall
         /\ (attempts[calls[c].att].w = "ok" /\ calls[c].seen # <<"none">>)
              => calls[c].seen = <<"ok", attempts[calls[c].att].val>>
    /\ calls[c].fetched \/ calls[c].wAtCall # "err"

\* A load made after a rejected attempt has resolved with a dictionary.
C2_Witness ==
  \E c \in CallIds :
    /\ calls[c].lastWAtCall = "err"
    /\ calls[c].seen[1] = "ok"

\* C3 as claimed: when a caller sees the error, the cache has no entry for K,
\* and the error is the one of the attempt the caller joined.
C3_NoEntryWhenErrorSeen ==
  \A c \in CallIds :
    calls[c].seen[1] = "err" =>
      /\ calls[c].cacheAtSeen = NoEntry
      /\ calls[c].seen = <<"err", attempts[calls[c].att].val>>

\* C3, amended: when a caller sees the error, the failed attempt's entry is
\* gone from the cache (the cache has no entry for K, or the entry of a later
\* attempt), and the error is the one of the attempt the caller joined.
C3_FailedEntryGoneWhenErrorSeen ==
  /\ \A c \in CallIds :
       calls[c].seen[1] = "err" =>
         /\ calls[c].cacheAtSeen = NoEntry \/ calls[c].cacheAtSeen > calls[c].att
         /\ calls[c].seen = <<"err", attempts[calls[c].att].val>>
  /\ \A a \in AttemptIds :
       attempts[a].w = "err" => cache[attempts[a].key] # a

\* Two callers joined one failed attempt; one saw the error with the cache
\* empty, the other after a retry had put a new entry.
C3_Witness ==
  \E c1, c2 \in CallIds :
    /\ calls[c1].att = calls[c2].att
    /\ calls[c1].seen[1] = "err" /\ calls[c1].cacheAtSeen = NoEntry
    /\ calls[c2].seen[1] = "err" /\ calls[c2].cacheAtSeen > calls[c2].att

(***************************************************************************)
(* createSolidLokat (solid-x, array mode)                                  *)
(***************************************************************************)

InitialLocale == "en"
InitialDict == "d0"      \* options.initialDict, when supplied
EmptyDict == "empty"     \* the [] of options.initialDict ?? []
LoaderDicts == Dicts     \* the arrays loadLocale may resolve with
Undefined == "undefined"

\* The strings of each array.
Content(d) ==
  CASE d = "d0" -> <<"OK", "Cancel">>
    [] d = "dA" -> <<"Oke", "Batal">>
    [] d = "dB" -> <<"Ja">>
    [] OTHER -> <<>>

\* Mutation: ids counted from 1.
ArrGet_OneBased(arr, id) == IF id \in 1..Len(arr) THEN arr[id] ELSE Undefined

\* arr[id] of a JavaScript array, ids counted from 0.
ArrGet(arr, id) == IF id + 1 \in 1..Len(arr) THEN arr[id + 1] ELSE Undefined

\* t(id): currentDict[id]
T(id) == ArrGet(Content(currentDict), id)

\* Mutation: setDictInternal updates the signal and forgets currentDict.
DictAfterSet_Stale(cur, d) == cur

\* setDictInternal(d): the value of currentDict afterwards.
DictAfterSet(cur, d) == IF cur # d THEN d ELSE cur

\* setDictInternal(d): the value of the dictionary signal afterwards.
SignalAfterSet(cur, sig, d) == IF cur # d THEN d ELSE sig

\* Mutation: the cached promise is never used.
CacheHit_Never(c, o, l) == FALSE

\* if (!options.dev?.disableCache) { const cached = cache.get(l); if (cached) ...
CacheHit(c, o, l) == ~o.disableCache /\ c[l] # NoEntry

\* The promise load(l) or preload(l) goes on with: the cached one, or the
\* one a new call of options.loadLocale(l) returns.
Awaited(c, ps, o, l) == IF CacheHit(c, o, l) THEN c[l] ELSE Len(ps) + 1

\* const promise = options.loadLocale(l), on a miss.
PromisesAfter(c, ps, o, l) ==
  IF CacheHit(c, o, l) THEN ps
  ELSE Append(ps, [key |-> l, st |-> "pending", val |-> "none"])

\* Mutation: load forgets cache.set.
LoadStore_Dropped(c, ps, o, l) == c

\* Mutation: load stores the promise whatever dev.disableCache says.
LoadStore_IgnoresFlag(c, ps, o, l) ==
  IF CacheHit(c, o, l) THEN c ELSE [c EXCEPT ![l] = Len(ps) + 1]

\* load: if (!options.dev?.disableCache) cache.set(l, promise)
LoadStore(c, ps, o, l) ==
  IF CacheHit(c, o, l) \/ o.disableCache THEN c
  ELSE [c EXCEPT ![l] = Len(ps) + 1]

\* Mutation: preload forgets cache.set.
PreloadStore_Dropped(c, ps, o, l) == c

\* preload: if (!options.dev?.disableCache) cache.set(l, promise)
PreloadStore(c, ps, o, l) ==
  IF CacheHit(c, o, l) \/ o.disableCache THEN c
  ELSE [c EXCEPT ![l] = Len(ps) + 1]

\* One invocation of a caller-supplied function: its name, its locale
\* argument, its error argument, the value of locale() at that moment, and
\* the setLocale / preload call that made it (0: the constructor).
Entry(fn, arg, err, loc, by) ==
  [fn |-> fn, arg |-> arg, err |-> err, loc |-> loc, by |-> by]

\* The loader invocation of a miss, none on a hit.
LoaderLog(lg, l, loc, by, invoked) ==
  IF invoked THEN Append(lg, Entry("loadLocale", l, "none", loc, by)) ELSE lg

\* Mutation: set starts load(l) before it calls the hook.
SetLog_HookAfterLoad(lg, l, loc, by, invoked) ==
  Append(LoaderLog(lg, l, loc, by, invoked),
         Entry("onLocaleChange", l, "none", loc, by))

\* set: options.dev?.onLocaleChange?.(l), then load(l).
SetLog(lg, l, loc, by, invoked) ==
  LoaderLog(Append(lg, Entry("onLocaleChange", l, "none", loc, by)),
            l, loc, by, invoked)

\* Mutation: set leaves the locale signal alone until the load is done.
LocaleAfterSet_Deferred(cur, l) == cur

\* setLocaleSignal(() => l)
LocaleAfterSet(cur, l) == l

\* Mutation: the error hook is handed locale() instead of l.
ErrorEntry_CurrentLocale(e, l, loc, by) == Entry("onError", loc, e, loc, by)

\* options.dev?.onError?.(e, l)
ErrorEntry(e, l, loc, by) == Entry("onError", l, e, loc, by)

\* The latest call of the given kinds for l so far, 0 when there is none.
PrevOp(kinds, l) ==
  LET s == {o \in 1..Len(ops) : ops[o].key = l /\ ops[o].kind \in kinds}
  IN IF s = {} THEN 0 ELSE CHOOSE o \in s : \A q \in s : q <= o

\* The state of the promise call o returned ("none" for o = 0): preload
\* returns the loader's promise, setLocale the promise of load(l).catch(...).
OpState(o) ==
  IF o = 0 THEN "none"
  ELSE IF ops[o].kind = "preload" THEN promises[ops[o].promise].st
  ELSE frames[ops[o].frame].out

\* A setLocale / preload call: the promise it goes on with, its activation
\* of load, and what it found: the cache entry for l, the state of the promise
\* the latest call for l returned, the latest preload(l) and the state of the
\* promise it returned.
OpRecord(kind, l, pid, f) ==
  [kind |-> kind, key |-> l, promise |-> pid, frame |-> f,
   entryAtCall |-> solidCache[l],
   prevSt |-> OpState(PrevOp({"set", "preload"}, l)),
   prevPre |-> PrevOp({"preload"}, l),
   prevPreSt |-> OpState(PrevOp({"preload"}, l))]

\* An activation of async load(l), suspended at its await.
Frame(kind, l, pid, o) ==
  [kind |-> kind, key |-> l, awaits |-> pid, op |-> o,
   st |-> "awaiting", val |-> "none",
   out |-> IF kind = "set" THEN "pending" ELSE "void"]

\* setLocale(l): set's synchronous body, with load(l) up to its await.
SetLocale(l) ==
  LET f == Len(frames) + 1
      o == Len(ops) + 1
      loc == LocaleAfterSet(locale, l)
      hit == CacheHit(solidCache, opts, l)
      pid == Awaited(solidCache, promises, opts, l)
  IN /\ Len(ops) < MaxOps
     /\ locale' = loc
     /\ log' = SetLog(log, l, loc, o, ~hit)
     /\ promises' = PromisesAfter(solidCache, promises, opts, l)
     /\ solidCache' = LoadStore(solidCache, promises, opts, l)
     /\ frames' = Append(frames, Frame("set", l, pid, o))
     /\ ops' = Append(ops, OpRecord("set", l, pid, f))
     /\ UNCHANGED <<currentDict, dictSignal, opts>>
     /\ UNCHANGED <<coreVars, other, pureVars>>

\* Mutation: preload switches the locale signal as setLocale does.
Preload_SetsLocale(l) ==
  LET hit == CacheHit(solidCache, opts, l)
      pid == Awaited(solidCache, promises, opts, l)
  IN /\ Len(ops) < MaxOps
     /\ locale' = l
     /\ log' = LoaderLog(log, l, locale, Len(ops) + 1, ~hit)
     /\ promises' = PromisesAfter(solidCache, promises, opts, l)
     /\ solidCache' = PreloadStore(solidCache, promises, opts, l)
     /\ ops' = Append(ops, OpRecord("preload", l, pid, 0))
     /\ UNCHANGED <<currentDict, dictSignal, frames, opts>>
     /\ UNCHANGED <<coreVars, other, pureVars>>

\* preload(l): returns the cached promise, or the loader's new one.
Preload(l) ==
  LET hit == CacheHit(solidCache, opts, l)
      pid == Awaited(solidCache, promises, opts, l)
  IN /\ Len(ops) < MaxOps
     /\ log' = LoaderLog(log, l, locale, Len(ops) + 1, ~hit)
     /\ promises' = PromisesAfter(solidCache, promises, opts, l)
     /\ solidCache' = PreloadStore(solidCache, promises, opts, l)
     /\ ops' = Append(ops, OpRecord("preload", l, pid, 0))
     /\ UNCHANGED <<locale, currentDict, dictSignal, frames, opts>>
     /\ UNCHANGED <<coreVars, other, pureVars>>

\* The promise loadLocale returned fulfils with the array d.
LoaderResolve(p, d) ==
  /\ promises[p].st = "pending"
  /\ promises' = [promises EXCEPT ![p].st = "ok", ![p].val = d]
  /\ UNCHANGED <<locale, currentDict, dictSignal, solidCache, frames, ops, log, opts>>
  /\ UNCHANGED <<coreVars, other, pureVars>>

\* The promise loadLocale returned rejects with the error e.
LoaderReject(p, e) ==
  /\ promises[p].st = "pending"
  /\ promises' = [promises EXCEPT ![p].st = "err", ![p].val = e]
  /\ UNCHANGED <<locale, currentDict, dictSignal, solidCache, frames, ops, log, opts>>
  /\ UNCHANGED <<coreVars, other, pureVars>>

\* load(l) resumes after its await: setDictInternal(d); return d -- or the
\* await throws and the promise of load(l) rejects.
LoadResume(f) ==
  LET p == promises[frames[f].awaits] IN
  /\ frames[f].st = "awaiting"
  /\ p.st # "pending"
  /\ frames' = [frames EXCEPT ![f].st = p.st, ![f].val = p.val]
  /\ currentDict' = IF p.st = "ok" THEN DictAfterSet(currentDict, p.val)
                    ELSE currentDict
  /\ dictSignal' = IF p.st = "ok" THEN SignalAfterSet(currentDict, dictSignal, p.val)
                   ELSE dictSignal
  /\ UNCHANGED <<locale, solidCache, promises, ops, log, opts>>
  /\ UNCHANGED <<coreVars, other, pureVars>>

\* The reaction of load(l).catch(...) in set: on rejection the handler calls
\* onError and rethrows; the promise setLocale returned settles as load did.
SetSettle(f) ==
  /\ frames[f].kind = "set"
  /\ frames[f].st # "awaiting"
  /\ frames[f].out = "pending"
  /\ frames' = [frames EXCEPT ![f].out = frames[f].st]
  /\ log' = IF frames[f].st = "err"
            THEN Append(log, ErrorEntry(frames[f].val, frames[f].key, locale,
                                       frames[f].op))
            ELSE log
  /\ UNCHANGED <<locale, currentDict, dictSignal, solidCache, promises, ops, opts>>
  /\ UNCHANGED <<coreVars, other, pureVars>>

\* Mutation: the constructor loads the initial locale in every case.
ConstructorLoads_Always(o) == TRUE

\* if (!options.initialDict) void load(options.initialLocale)
ConstructorLoads(o) == ~o.initialDict

\* createSolidLokat(options): the state when the constructor returns.  Without
\* an initialDict the constructor has run load(initialLocale) up to its await.
InitSolid ==
  /\ cache = NewInstance.cache
  /\ attempts = NewInstance.attempts
  /\ calls = NewInstance.calls
  /\ NoOther
  /\ NoCall
  /\ opts \in [initialDict : BOOLEAN, disableCache : BOOLEAN]
  /\ locale = InitialLocale
  /\ currentDict = IF opts.initialDict THEN InitialDict ELSE EmptyDict
  /\ dictSignal = currentDict
  /\ ops = <<>>
  /\ LET c0 == [k \in Locales |-> NoEntry] IN
     IF ~ConstructorLoads(opts)
     THEN /\ solidCache = c0
          /\ promises = <<>>
          /\ frames = <<>>
          /\ log = <<>>
     ELSE /\ solidCache = LoadStore(c0, <<>>, opts, InitialLocale)
          /\ promises = PromisesAfter(c0, <<>>, opts, InitialLocale)
          /\ frames = <<Frame("init", InitialLocale,
                            Awaited(c0, <<>>, opts, InitialLocale), 0)>>
          /\ log = LoaderLog(<<>>, InitialLocale, InitialLocale, 0, TRUE)

NextSolid ==
  \/ \E l \in Locales : SetLocale(l)
  \/ \E l \in Locales : Preload(l)
  \/ \E p \in 1..Len(promises) : \E d \in LoaderDicts : LoaderResolve(p, d)
  \/ \E p \in 1..Len(promises) : \E e \in Errs : LoaderReject(p, e)
  \/ \E f \in 1..Len(frames) : LoadResume(f)
  \/ \E f \in 1..Len(frames) : SetSettle(f)

SpecSolid == InitSolid /\ [][NextSolid]_vars

(***************************************************************************)
(* createSolidLokat: properties                                            *)
(***************************************************************************)

OpIds == 1..Len(ops)
FrameIds == 1..Len(frames)
PromiseIds == 1..Len(promises)
LogIds == 1..Len(log)
TIds == 0..2
CachingOn == ~opts.disableCache

\* Call o (0: the constructor) invoked options.loadLocale.
Invoked(o) == \E n \in LogIds : log[n].fn = "loadLocale" /\ log[n].by = o

\* C4 as claimed: with caching enabled, a preload(K) or setLocale(K) made when
\* the latest call for K has rejected finds no cache entry for K and invokes
\* the loader again.
C4_NoPoison ==
  CachingOn =>
    \A o \in OpIds :
      ops[o].prevSt = "err" => ops[o].entryAtCall = NoEntry /\ Invoked(o)

\* C5: with caching enabled, a preload(K) made while the promise of an
\* earlier preload(K) is pending returns that promise and does not invoke
\* loadLocale; the preload that found K uncached invoked it (once).
C5_PreloadSingleFlight ==
  CachingOn =>
    \A j \in OpIds :
      ops[j].kind = "preload" =>
        /\ ops[j].prevPreSt = "pending" =>
             /\ ops[j].promise = ops[ops[j].prevPre].promise
             /\ ~Invoked(j)
        /\ ops[j].entryAtCall = NoEntry =>
             /\ Invoked(j)
             /\ Cardinality({n \in LogIds : /\ log[n].fn = "loadLocale"
                                            /\ log[n].arg = ops[j].key}) = 1

\* Two preloads of a locale: the first found it uncached, the second was made
\* while the first's promise was pending.
C5_Witness ==
  /\ CachingOn
  /\ \E i, j \in OpIds :
       /\ ops[i].kind = "preload" /\ ops[j].kind = "preload"
       /\ ops[i].entryAtCall = NoEntry
       /\ ops[j].prevPre = i
       /\ ops[j].prevPreSt = "pending"

\* C6: the step of setLocale(l) leaves the locale signal at l with the load
\* of that call still suspended, and no other step changes the locale signal
\* (a rejection does not roll it back).
C6_LocaleSync ==
  [][/\ Len(frames') > Len(frames) =>
          /\ locale' = frames'[Len(frames')].key
          /\ frames'[Len(frames')].kind = "set"
          /\ frames'[Len(frames')].st = "awaiting"
          /\ frames'[Len(frames')].out = "pending"
     /\ Len(frames') = Len(frames) => locale' = locale]_vars

\* setLocale("id") has rejected and the locale signal is still "id".
C6_Witness ==
  \E f \in FrameIds :
    /\ frames[f].kind = "set" /\ frames[f].out = "err"
    /\ frames[f].key # InitialLocale
    /\ locale = frames[f].key

\* C7: when the load of a setLocale(l) call fails, neither the step at which
\* load throws nor the step of the catch handler changes the dictionary
\* snapshot; the handler calls onError(e, l) with the loader's error e, and
\* the promise setLocale returned rejects with e.
C7_FailedSet ==
  [][\A f \in FrameIds :
       frames[f].kind = "set" =>
         /\ (frames[f].st = "awaiting" /\ frames'[f].st = "err") =>
              /\ UNCHANGED <<currentDict, dictSignal>>
              /\ frames'[f].val = promises[frames[f].awaits].val
         /\ (frames[f].out = "pending" /\ frames'[f].out = "err") =>
              /\ UNCHANGED <<currentDict, dictSignal>>
              /\ frames'[f].val = promises[frames[f].awaits].val
              /\ Len(log') = Len(log) + 1
              /\ log'[Len(log')].fn = "onError"
              /\ log'[Len(log')].err = promises[frames[f].awaits].val
              /\ log'[Len(log')].arg = frames[f].key]_vars

\* A setLocale call has rejected after another locale was set and loaded: the
\* snapshot is that loaded array and the last hook call is the onError.
C7_Witness ==
  \E f \in FrameIds :
    /\ frames[f].kind = "set" /\ frames[f].out = "err"
    /\ currentDict \in Dicts
    /\ locale # frames[f].key
    /\ log[Len(log)].fn = "onError" /\ log[Len(log)].by = frames[f].op

\* C8: at the step where the load of a setLocale(l) call succeeds, currentDict
\* and the dictionary signal become the array the loader's promise resolved
\* with, t(id) reads that array from then on, and setLocale resolves with it;
\* t never reads an array other than the current snapshot.
C8_Rebind ==
  /\ [][\A f \in FrameIds :
          frames[f].kind = "set" =>
            /\ (frames[f].st = "awaiting" /\ frames'[f].st = "ok") =>
                 LET d == promises[frames[f].awaits].val IN
                 /\ currentDict' = d
                 /\ dictSignal' = d
                 /\ \A id \in TIds : T(id)' = ArrGet(Content(d), id)
            /\ (frames[f].out = "pending" /\ frames'[f].out = "ok") =>
                 frames'[f].val = promises[frames[f].awaits].val]_vars
  /\ [](\A id \in TIds : T(id) = ArrGet(Content(dictSignal), id))

\* setLocale has resolved with a loaded array and t reads it.
C8_Witness ==
  \E f \in FrameIds :
    /\ frames[f].kind = "set" /\ frames[f].out = "ok"
    /\ frames[f].val \in Dicts
    /\ currentDict = frames[f].val
    /\ T(0) = Content(frames[f].val)[1]
    /\ opts.initialDict

\* C9: a preload(l) call, and the settling of a loader promise, change
\* neither the locale signal nor the dictionary snapshot; the snapshot is
\* always the initial one or the array a load (of setLocale or of the
\* constructor) resumed with.
C9_PreloadFrame ==
  /\ [][(\/ /\ Len(ops') > Len(ops)
            /\ ops'[Len(ops')].kind = "preload"
         \/ /\ Len(promises') = Len(promises)
            /\ promises' # promises)
        => UNCHANGED <<locale, currentDict, dictSignal>>]_vars
  /\ [](\/ currentDict = (IF opts.initialDict THEN InitialDict ELSE EmptyDict)
        \/ \E f \in FrameIds : frames[f].st = "ok" /\ frames[f].val = currentDict)

\* A preload of another locale has resolved, and one of yet another has
\* rejected; locale and snapshot are the initial ones.
C9_Witness ==
  /\ opts.initialDict
  /\ \E i, j \in OpIds :
       /\ ops[i].kind = "preload" /\ ops[j].kind = "preload"
       /\ promises[ops[i].promise].st = "ok"
       /\ promises[ops[j].promise].st = "err"
       /\ ops[i].key # locale
  /\ currentDict = InitialDict
  /\ locale = InitialLocale

\* C10: every setLocale(l) call has called onLocaleChange(l), with locale()
\* already l, before the loader invocation and before the onError of that
\* call.
C10_HookOrder ==
  \A f \in FrameIds :
    frames[f].kind = "set" =>
      \E i \in LogIds :
        /\ log[i].fn = "onLocaleChange"
        /\ log[i].by = frames[f].op
        /\ log[i].arg = frames[f].key
        /\ log[i].loc = frames[f].key
        /\ \A j \in LogIds :
             (log[j].by = frames[f].op /\ log[j].fn # "onLocaleChange") => i < j

\* A setLocale call that invoked the loader and failed: onLocaleChange, then
\* loadLocale, then onError.
C10_Witness ==
  \E f \in FrameIds :
    \E i, j, k \in LogIds :
      /\ i < j /\ j < k
      /\ log[i].by = frames[f].op /\ log[i].fn = "onLocaleChange"
      /\ log[j].by = frames[f].op /\ log[j].fn = "loadLocale"
      /\ log[k].by = frames[f].op /\ log[k].fn = "onError"
      /\ log[k].arg = log[i].arg

\* The latest call before call o for the same locale, 0 when there is none.
Prev(o) ==
  LET s == {i \in 1..(o - 1) : ops[i].key = ops[o].key}
  IN IF s = {} THEN 0 ELSE CHOOSE i \in s : \A q \in s : q <= i

\* C11: with caching enabled, a setLocale(K) made when the promise the latest
\* preload(K) / setLocale(K) returned is pending or fulfilled does not invoke
\* the loader; its load awaits the promise that call went on with, and on
\* success the snapshot becomes the array that promise resolved with.
C11_SetJoins ==
  /\ [](CachingOn =>
         \A o \in OpIds :
           (ops[o].kind = "set" /\ ops[o].prevSt \in {"pending", "ok"}) =>
             /\ ~Invoked(o)
             /\ ops[o].promise = ops[Prev(o)].promise
             /\ frames[ops[o].frame].awaits = ops[Prev(o)].promise
             /\ frames[ops[o].frame].st = "ok" =>
                  frames[ops[o].frame].val = promises[ops[Prev(o)].promise].val)
  /\ [][CachingOn =>
         \A o \in OpIds :
           (/\ ops[o].kind = "set" /\ ops[o].prevSt \in {"pending", "ok"}
            /\ frames[ops[o].frame].st = "awaiting"
            /\ frames'[ops[o].frame].st = "ok") =>
             currentDict' = promises[ops[Prev(o)].promise].val]_vars

\* preload(K) was in flight when setLocale(K) was called; the one loader
\* promise resolved and the snapshot is its array.
C11_Witness ==
  /\ CachingOn
  /\ \E o \in OpIds :
       /\ ops[o].kind = "set" /\ ops[o].prevSt = "pending"
       /\ ops[Prev(o)].kind = "preload"
       /\ frames[ops[o].frame].out = "ok"
       /\ currentDict = promises[ops[Prev(o)].promise].val
       /\ Cardinality({n \in LogIds : log[n].fn = "loadLocale"
                                      /\ log[n].arg = ops[o].key}) = 1

(***************************************************************************)
(* Either kind of caching instance                                         *)
(***************************************************************************)

\* One instance is constructed: a createLokat or a createSolidLokat.
InitCached == InitCore \/ InitSolid

\* The instance that was constructed takes a step (currentDict is an array
\* from construction on exactly when the instance is a createSolidLokat).
NextCached ==
  \/ currentDict = "none" /\ NextCore
  \/ currentDict # "none" /\ NextSolid

SpecCached == InitCached /\ [][NextCached]_vars

\* C12: once a load for K has succeeded the entry stays in the cache: the
\* successful attempt is the cache entry of K and the last attempt for K ever
\* made, a call that finds it does not fetch and is handed its promise, and
\* every caller for K that sees a dictionary sees that one (createLokat; and
\* likewise for the loader promise of createSolidLokat with caching enabled).
C12_EntrySurvives ==
  /\ \A a \in AttemptIds :
       attempts[a].p = "ok" =>
         /\ cache[attempts[a].key] = a
         /\ LastAttempt(attempts[a].key) = a
         /\ \A c \in CallIds :
              (calls[c].key = attempts[a].key /\ calls[c].seen[1] = "ok") =>
                calls[c].seen = <<"ok", attempts[a].val>>
  /\ \A c \in CallIds :
       calls[c].lastWAtCall = "ok" =>
         /\ ~calls[c].fetched
         /\ calls[c].att = calls[c].lastAtCall
  /\ CachingOn =>
       /\ \A p \in PromiseIds :
            promises[p].st = "ok" =>
              /\ solidCache[promises[p].key] = p
              /\ \A q \in PromiseIds : promises[q].key = promises[p].key => q <= p
              /\ \A f \in FrameIds :
                   (frames[f].key = promises[p].key /\ frames[f].st = "ok") =>
                     frames[f].val = promises[p].val
       /\ \A o \in OpIds :
            ops[o].entryAtCall # NoEntry =>
              /\ ~Invoked(o)
              /\ ops[o].promise = ops[o].entryAtCall

\* A load(K) made after the first one had succeeded was handed the same
\* dictionary without a fetch.
C12_Witness ==
  \E c1, c2 \in CallIds :
    /\ calls[c1].fetched
    /\ calls[c2].lastWAtCall = "ok" /\ calls[c2].att = calls[c1].att
    /\ calls[c2].seen[1] = "ok" /\ calls[c2].seen = calls[c1].seen

(***************************************************************************)
(* Two createLokat instances                                               *)
(***************************************************************************)

\* Mutation: one Map at module level, read by every instance.
BCache_Shared == cache

\* The Map the closure of the second instance holds: its own new Map().
BCache == other.cache

\* What the caller of load(k) on the second instance is handed, with both
\* caches as the call found them.
BCallRecord(k, a, fetched) ==
  [key |-> k, att |-> a, fetched |-> fetched,
   entryAtCall |-> other.cache[k],
   aEntryAtCall |-> cache[k],
   aStateAtCall |-> WState(cache[k]),
   seen |-> <<"none">>]

\* The two instances together make at most MaxLoads calls of load.
LoadsLeft == Len(calls) + Len(other.calls) < MaxLoads

\* load(locale) on the second instance.
BLoad(k) ==
  /\ LoadsLeft
  /\ LET promise == CacheGet(BCache, k) IN
       IF promise = NoEntry
       THEN LET id == Len(other.attempts) + 1 IN
            other' = [other EXCEPT
              !.attempts = Append(other.attempts,
                 [key |-> k, p |-> "pending", w |-> "pending", val |-> "none"]),
              !.cache = CacheSet(other.cache, k, id),
              !.calls = Append(other.calls, BCallRecord(k, id, TRUE))]
       ELSE other' = [other EXCEPT
              !.calls = Append(other.calls, BCallRecord(k, promise, FALSE))]
  /\ UNCHANGED <<coreVars, solidVars, pureVars>>

\* The second instance's fetcher(url).then(r => r.json()) fulfils.
BFetchResolve(a, d) ==
  /\ other.attempts[a].p = "pending"
  /\ other' = [other EXCEPT !.attempts[a].p = "ok", !.attempts[a].val = d]
  /\ UNCHANGED <<coreVars, solidVars, pureVars>>

\* The second instance's fetcher promise, or r.json(), rejects.
BFetchReject(a, e) ==
  /\ other.attempts[a].p = "pending"
  /\ other' = [other EXCEPT !.attempts[a].p = "err", !.attempts[a].val = e]
  /\ UNCHANGED <<coreVars, solidVars, pureVars>>

\* The reaction job of p.catch(...) of the second instance.
BWrappedSettle(a) ==
  /\ other.attempts[a].p # "pending"
  /\ other.attempts[a].w = "pending"
  /\ other' = [other EXCEPT
       !.cache = CacheAfterCatch(other.cache, other.attempts[a].key,
                                 other.attempts[a].p),
       !.attempts[a].w = other.attempts[a].p]
  /\ UNCHANGED <<coreVars, solidVars, pureVars>>

\* The continuation of a caller awaiting a promise of the second instance.
BObserve(c) ==
  /\ other.calls[c].seen = <<"none">>
  /\ other.attempts[other.calls[c].att].w # "pending"
  /\ other' = [other EXCEPT !.calls[c].seen =
       <<other.attempts[other.calls[c].att].w,
         other.attempts[other.calls[c].att].val>>]
  /\ UNCHANGED <<coreVars, solidVars, pureVars>>

\* Two createLokat instances right after construction.
InitIso == InitCore

NextIso ==
  \/ \E k \in Locales : LoadsLeft /\ Load(k)
  \/ \E a \in 1..Len(attempts) : \E d \in Dicts : FetchResolve(a, d)
  \/ \E a \in 1..Len(attempts) : \E e \in Errs : FetchReject(a, e)
  \/ \E a \in 1..Len(attempts) : WrappedSettle(a)
  \/ \E c \in 1..Len(calls) : Observe(c)
  \/ \E k \in Locales : BLoad(k)
  \/ \E a \in 1..Len(other.attempts) : \E d \in Dicts : BFetchResolve(a, d)
  \/ \E a \in 1..Len(other.attempts) : \E e \in Errs : BFetchReject(a, e)
  \/ \E a \in 1..Len(other.attempts) : BWrappedSettle(a)
  \/ \E c \in 1..Len(other.calls) : BObserve(c)

SpecIso == InitIso /\ [][NextIso]_vars

BCallIds == 1..Len(other.calls)

\* C13: two instances share no cache entry: a step of instance A (a load, a
\* resolution, a rejection, its catch reaction) leaves B's cache unchanged and
\* a step of B leaves A's unchanged; a load(K) on B that finds no entry in B's
\* own cache invokes B's fetcher and is handed a promise of B, whatever A's
\* cache holds for K; and what a caller of B sees is the outcome of B's attempt.
C13_Isolated ==
  /\ [][/\ <<cache, attempts, calls>>' # <<cache, attempts, calls>> =>
             other' = other
        /\ other' # other =>
             <<cache, attempts, calls>>' = <<cache, attempts, calls>>]_vars
  /\ [](\A c \in BCallIds :
          /\ other.calls[c].fetched <=> other.calls[c].entryAtCall = NoEntry
          /\ other.calls[c].att \in 1..Len(other.attempts)
          /\ other.attempts[other.calls[c].att].key = other.calls[c].key
          /\ other.calls[c].seen # <<"none">> =>
               other.calls[c].seen =
                 <<other.attempts[other.calls[c].att].w,
                   other.attempts[other.calls[c].att].val>>)

\* load(K) on B fetched although A held a resolved entry for K, and B's caller
\* has seen the dictionary of B's own fetch, which differs from A's.
C13_Witness ==
  \E c \in BCallIds :
    /\ other.calls[c].aEntryAtCall # NoEntry
    /\ other.calls[c].aStateAtCall = "ok"
    /\ other.calls[c].fetched
    /\ other.calls[c].seen[1] = "ok"
    /\ other.calls[c].seen[2] # attempts[cache[other.calls[c].key]].val

(***************************************************************************)
(* createLokat: independence of keys                                       *)
(***************************************************************************)

\* The cache entry of k: the attempt it holds and that attempt's promises.
EntryOf(k) ==
  IF cache[k] = NoEntry THEN <<NoEntry, "absent">>
  ELSE <<cache[k], attempts[cache[k]]>>

\* The step is a load for k, or a resolution, rejection, catch reaction or
\* caller continuation of an attempt for k.
StepFor(k) ==
  \/ Len(calls') > Len(calls) /\ calls'[Len(calls')].key = k
  \/ \E a \in AttemptIds : attempts'[a] # attempts[a] /\ attempts[a].key = k
  \/ \E c \in CallIds : calls'[c] # calls[c] /\ calls[c].key = k

\* C14: a load, resolution or rejection for K leaves the entry of every other
\* key as it was (absent, pending or resolved, with the same promise), and a
\* load(K') is handed a promise of an attempt made for K' and sees that
\* attempt's outcome, never what was fetched for another key.
C14_KeysIndependent ==
  /\ [][\A k \in Locales : StepFor(k) =>
          \A k2 \in Locales \ {k} : EntryOf(k2)' = EntryOf(k2)]_vars
  /\ [](\A c \in CallIds :
          /\ attempts[calls[c].att].key = calls[c].key
          /\ calls[c].seen # <<"none">> =>
               calls[c].seen[2] = attempts[calls[c].att].val)

\* An attempt for one key was rejected and its entry removed while the other
\* key keeps its resolved entry, whose caller has seen its dictionary.
C14_Witness ==
  \E a \in AttemptIds : \E c \in CallIds :
    /\ attempts[a].w = "err"
    /\ cache[attempts[a].key] = NoEntry
    /\ calls[c].key # attempts[a].key
    /\ calls[c].att < a
    /\ cache[calls[c].key] = calls[c].att
    /\ calls[c].seen[1] = "ok"

(***************************************************************************)
(* createSolidLokat: construction and dev.disableCache                     *)
(***************************************************************************)

\* C15: with an initialDict the constructor does not invoke the loader and
\* starts no load; until the first setLocale / preload the snapshot and the
\* signal are the initial dictionary, t reads it, and the locale is the
\* initial locale; every loader invocation is made by a setLocale or preload.
C15_InitialDict ==
  opts.initialDict =>
    /\ ~Invoked(0)
    /\ \A n \in LogIds : log[n].by \in OpIds
    /\ \A f \in FrameIds : frames[f].kind = "set"
    /\ ops = <<>> =>
         /\ promises = <<>> /\ frames = <<>> /\ log = <<>>
         /\ solidCache = [k \in Locales |-> NoEntry]
         /\ currentDict = InitialDict /\ dictSignal = InitialDict
         /\ \A id \in TIds : T(id) = ArrGet(Content(InitialDict), id)
         /\ locale = InitialLocale

\* Constructed with an initialDict; the first loader invocation was made by a
\* later call, and the snapshot is still the initial dictionary.
C15_Witness ==
  /\ opts.initialDict
  /\ \E o \in OpIds : Invoked(o) /\ promises[ops[o].promise].st = "pending"
  /\ currentDict = InitialDict
  /\ T(0) = "OK"

\* The constructor made exactly one load: one loader invocation, for the
\* initial locale, awaited by one activation of load whose promise nobody
\* holds; and the snapshot is the empty array while no load has resolved.
OneInitialLoad ==
  /\ Cardinality({n \in LogIds : log[n].by = 0}) = 1
  /\ log[1] = Entry("loadLocale", InitialLocale, "none", InitialLocale, 0)
  /\ promises[1].key = InitialLocale
  /\ {f \in FrameIds : frames[f].kind = "init"} = {1}
  /\ frames[1].key = InitialLocale /\ frames[1].awaits = 1
  /\ frames[1].out = "void"
  /\ (\A f \in FrameIds : frames[f].st # "ok") =>
       currentDict = EmptyDict /\ dictSignal = EmptyDict

\* Every preload / setLocale of the initial locale goes on with the promise
\* of the constructor's load and does not invoke the loader.
JoinsInitialLoad ==
  \A o \in OpIds :
    ops[o].key = InitialLocale => ops[o].promise = 1 /\ ~Invoked(o)

\* C16 as stated: without an initialDict the constructor makes exactly one
\* unawaited load of the initial locale, a following preload / setLocale of
\* the initial locale joins it without a loader invocation, and the snapshot
\* is the empty array until a load resolves.
C16_InitialLoadJoined ==
  ~opts.initialDict => OneInitialLoad /\ JoinsInitialLoad

\* C16, amended: the same, the joining only with caching enabled, where the
\* constructor's promise is and stays the cache entry of the initial locale.
C16_InitialLoad ==
  ~opts.initialDict =>
    /\ OneInitialLoad
    /\ CachingOn => solidCache[InitialLocale] = 1 /\ JoinsInitialLoad

\* A call for the initial locale joined the constructor's pending load; the
\* snapshot is still the empty array.
C16_Witness ==
  /\ ~opts.initialDict /\ CachingOn
  /\ promises[1].st = "pending"
  /\ \E o \in OpIds :
       ops[o].key = InitialLocale /\ ops[o].promise = 1 /\ ~Invoked(o)
  /\ currentDict = EmptyDict

\* The loader invocations made by call o.
LoaderCalls(o) == {n \in LogIds : log[n].fn = "loadLocale" /\ log[n].by = o}

\* C17: with dev.disableCache the Map stays empty, no call finds an entry,
\* and every preload(l) and setLocale(l) invokes the loader exactly once, with
\* l, and goes on with the new promise of that invocation, which no other
\* call and no constructor load shares.
C17_CacheBypassed ==
  opts.disableCache =>
    /\ solidCache = [k \in Locales |-> NoEntry]
    /\ \A o \in OpIds :
         /\ ops[o].entryAtCall = NoEntry
         /\ Cardinality(LoaderCalls(o)) = 1
         /\ \A n \in LoaderCalls(o) : log[n].arg = ops[o].key
         /\ promises[ops[o].promise].key = ops[o].key
         /\ \A q \in OpIds \ {o} : ops[q].promise # ops[o].promise
         /\ \A f \in FrameIds :
              frames[f].kind = "init" => frames[f].awaits # ops[o].promise
    /\ Len(promises) = Len(ops) + Cardinality({f \in FrameIds : frames[f].kind = "init"})

\* With dev.disableCache, a second call for a locale whose first load had
\* already resolved invoked the loader again and got a promise of its own.
C17_Witness ==
  /\ opts.disableCache
  /\ \E o1, o2 \in OpIds :
       /\ o1 < o2 /\ ops[o1].key = ops[o2].key
       /\ ops[o2].prevSt = "ok"
       /\ Invoked(o2)
       /\ ops[o2].promise # ops[o1].promise

(***************************************************************************)
(* createT and createTA                                                    *)
(***************************************************************************)

MaxArr == 2   \* longest array handed to createTA

\* Keys and values of the dictionaries handed to createT, and the keys asked.
DictKeys == {"a.b", "x", "toString"}
DictValues == {"ok", ""}
AskedKeys == {"a.b", "x", "missing", "toString", "constructor"}

\* Properties every object literal and every JSON.parse / r.json() result
\* inherits from Object.prototype (those among the keys asked).
ProtoKeys == {"toString", "constructor"}

\* The dictionaries: plain objects whose own properties are strings.
TDicts == UNION {[ks -> DictValues] : ks \in SUBSET DictKeys}

\* The arrays, and the ids asked: in range, negative and past the end.
TStrings == {"OK", "Cancel", ""}
TArrays == UNION {[1..n -> TStrings] : n \in 0..MaxArr}
AskedIds == -1..(MaxArr + 1)

\* JavaScript values: a string, undefined, or an inherited member.
Str(x) == <<"string", x>>
Undef == <<"undefined">>
Inherited(k) == <<"Object.prototype", k>>

\* dict[key] of a plain object: the own property, else the property found on
\* the prototype chain, else undefined.
ObjGet(dict, key) ==
  IF key \in DOMAIN dict THEN Str(dict[key])
  ELSE IF key \in ProtoKeys THEN Inherited(key)
  ELSE Undef

\* createT(dict)(key): dict[key] ?? key
CreateT(dict, key) ==
  LET v == ObjGet(dict, key) IN IF v = Undef THEN Str(key) ELSE v

\* createTA(arr)(id): arr[id] as string
CreateTA(arr, id) ==
  LET v == ArrGet(arr, id) IN IF v = Undefined THEN Undef ELSE Str(v)

\* const t = i18n.createT(dict); t(key)
CallT ==
  /\ input.fn = "createT" /\ output = <<"none">>
  /\ output' = CreateT(input.dict, input.key)
  /\ UNCHANGED <<coreVars, solidVars, other, input>>

\* const t = createTA(arr); t(id)
CallTA ==
  /\ input.fn = "createTA" /\ output = <<"none">>
  /\ output' = CreateTA(input.arr, input.id)
  /\ UNCHANGED <<coreVars, solidVars, other, input>>

InitT ==
  /\ cache = NewInstance.cache
  /\ attempts = NewInstance.attempts
  /\ calls = NewInstance.calls
  /\ NoSolid
  /\ NoOther
  /\ input \in [fn : {"createT"}, dict : TDicts, key : AskedKeys]
               \cup [fn : {"createTA"}, arr : TArrays, id : AskedIds]
  /\ output = <<"none">>

NextT == CallT \/ CallTA

SpecT == InitT /\ [][NextT]_vars

\* C18: t(key) is the dictionary's value for key when the dictionary has the
\* key, and key itself when it has not.
C18_KeyFallback ==
  (input.fn = "createT" /\ output # <<"none">>) =>
    output = IF input.key \in DOMAIN input.dict
             THEN Str(input.dict[input.key])
             ELSE Str(input.key)

\* C19: t(id) is the element at id when 0 <= id < length, and undefined for
\* every other id: no fallback string, no error.
C19_IndexedLookup ==
  (input.fn = "createTA" /\ output # <<"none">>) =>
    output = IF 0 <= input.id /\ input.id < Len(input.arr)
             THEN Str(input.arr[input.id + 1])
             ELSE Undef

\* t was asked an id past the end of a non-empty array and a negative id, and
\* the last element of an array.
C19_Witness ==
  /\ input.fn = "createTA" /\ output # <<"none">>
  /\ Len(input.arr) = MaxArr
  /\ \/ input.id = Len(input.arr) /\ output = Undef
     \/ input.id = -1 /\ output = Undef
     \/ input.id = Len(input.arr) - 1 /\ output = Str(input.arr[MaxArr])

(***************************************************************************)
(* gen: validateAndOrder                                                   *)
(***************************************************************************)

MaxKeys == 2   \* most keys in one namespace file

GenLocales == {"en", "id"}
Namespaces == {"auth", "common"}
KeyNames == {"a", "b", "1"}

\* Position of a namespace name in the order of Array.prototype.sort().
NsRank(ns) == IF ns = "auth" THEN 1 ELSE 2

\* The number an integer-like property name stands for, -1 for other names.
KeyNum(k) == IF k = "1" THEN 1 ELSE -1

\* The sequences of distinct elements of S of length n.
Arrangements(S, n) ==
  {q \in [1..n -> S] : \A i, j \in 1..n : i # j => q[i] # q[j]}

\* What JSON.parse gives readJson: an object, with its keys in file order,
\* or a value that is not an object (null).
JsonObject(ks) == [json |-> "object", keys |-> ks]
JsonNull == [json |-> "null"]
NoValue == [json |-> "undefined"]
GenDicts ==
  {JsonObject(ks) : ks \in UNION {Arrangements(KeyNames, n) : n \in 0..MaxKeys}}
  \cup {JsonNull}

\* Map<Namespace, LocaleDict> of one locale.
NsMaps == UNION {[nss -> GenDicts] : nss \in SUBSET Namespaces}

\* layout.locales: a Map, iterated in insertion order, here with the locales
\* ls and their namespace maps ms.
Layout(ls, ms) == [i \in 1..Len(ls) |-> [loc |-> ls[i], nsMap |-> ms[i]]]

\* Mutation: the names come out in descending order.
SortNs_Descending(S) ==
  CHOOSE q \in Arrangements(S, Cardinality(S)) :
    /\ \A x \in S : \E i \in 1..Len(q) : q[i] = x
    /\ \A i, j \in 1..Len(q) : i < j => NsRank(q[i]) > NsRank(q[j])

\* [...S].sort() of namespace names.
SortNs(S) ==
  CHOOSE q \in Arrangements(S, Cardinality(S)) :
    /\ \A x \in S : \E i \in 1..Len(q) : q[i] = x
    /\ \A i, j \in 1..Len(q) : i < j => NsRank(q[i]) < NsRank(q[j])

\* Object.keys(d): integer-like names first, in ascending numeric order, then
\* the other names in insertion order.
ObjectKeys(d) ==
  LET IsInt(k) == KeyNum(k) >= 0
      IsName(k) == KeyNum(k) < 0
      ints == {d.keys[i] : i \in {j \in 1..Len(d.keys) : IsInt(d.keys[j])}}
      sorted == CHOOSE q \in Arrangements(ints, Cardinality(ints)) :
                  /\ \A x \in ints : \E i \in 1..Len(q) : q[i] = x
                  /\ \A i, j \in 1..Len(q) : i < j => KeyNum(q[i]) < KeyNum(q[j])
  IN sorted \o SelectSeq(d.keys, IsName)

\* layout.locales.get(loc), NoValue when the Map has no such locale.
LocalesGet(layout, loc) ==
  LET s == {i \in 1..Len(layout) : layout[i].loc = loc}
  IN IF s = {} THEN NoValue ELSE [json |-> "map", nsMap |-> layout[CHOOSE i \in s : TRUE].nsMap]

\* nsMap.get(ns), NoValue when the Map has no such namespace.
NsGet(nsMap, ns) == IF ns \in DOMAIN nsMap THEN nsMap[ns] ELSE NoValue

\* if (!d): undefined and null are falsy, an object is not.
Falsy(d) == d.json \in {"undefined", "null"}

Issue(loc, ns, msg) == [locale |-> loc, namespace |-> ns, message |-> msg]

\* Mutation: the count check is left out.
CountIssue_Dropped(loc, ns, keys, refKeys) == <<>>

\* if (keys.length !== refKeys.length) issues.push(...)
CountIssue(loc, ns, keys, refKeys) ==
  IF Len(keys) # Len(refKeys)
  THEN <<Issue(loc, ns, <<"Key count mismatch: got", Len(keys),
                          "expected", Len(refKeys)>>)>>
  ELSE <<>>

\* The issue the order loop pushes at index i.
OrderIssueAt(loc, ns, keys, refKeys, i) ==
  Issue(loc, ns, <<"Order mismatch at index", i, ArrGet(keys, i), refKeys[i + 1]>>)

RECURSIVE OrderLoop_NoBreak(_, _, _, _, _)
\* Mutation: the order loop goes on after a mismatch.
OrderLoop_NoBreak(loc, ns, keys, refKeys, i) ==
  IF ~(i < Len(refKeys)) THEN <<>>
  ELSE IF ArrGet(keys, i) # refKeys[i + 1]
  THEN <<OrderIssueAt(loc, ns, keys, refKeys, i)>>
       \o OrderLoop_NoBreak(loc, ns, keys, refKeys, i + 1)
  ELSE OrderLoop_NoBreak(loc, ns, keys, refKeys, i + 1)

RECURSIVE OrderLoop(_, _, _, _, _)
\* for (let i = ...; i < refKeys.length; i++) if (keys[i] !== refKeys[i])
\* { issues.push(...); break }, from index i on.
OrderLoop(loc, ns, keys, refKeys, i) ==
  IF ~(i < Len(refKeys)) THEN <<>>
  ELSE IF ArrGet(keys, i) # refKeys[i + 1]
  THEN <<OrderIssueAt(loc, ns, keys, refKeys, i)>>
  ELSE OrderLoop(loc, ns, keys, refKeys, i + 1)

\* Mutation: a count mismatch ends the checks of the pair.
CountOrderIssues_CountOnly(loc, ns, keys, refKeys) ==
  IF Len(keys) # Len(refKeys) THEN CountIssue(loc, ns, keys, refKeys)
  ELSE OrderLoop(loc, ns, keys, refKeys, 0)

\* The count check and the order loop for keys against refKeys.
CountOrderIssues(loc, ns, keys, refKeys) ==
  CountIssue(loc, ns, keys, refKeys) \o OrderLoop(loc, ns, keys, refKeys, 0)

\* Mutation: no continue after the Missing namespace issue.
PairIssues_NoContinue(loc, ns, d, refKeys) ==
  IF Falsy(d)
  THEN <<Issue(loc, ns, <<"Missing namespace">>)>>
       \o CountOrderIssues(loc, ns, <<>>, refKeys)
  ELSE CountOrderIssues(loc, ns, ObjectKeys(d), refKeys)

\* The body of the inner loop for one (locale, namespace) pair.
PairIssues(loc, ns, d, refKeys) ==
  IF Falsy(d) THEN <<Issue(loc, ns, <<"Missing namespace">>)>>
  ELSE CountOrderIssues(loc, ns, ObjectKeys(d), refKeys)

RECURSIVE ConcatAll(_)
\* The issues pushed by consecutive loop rounds, in order.
ConcatAll(ss) == IF ss = <<>> THEN <<>> ELSE Head(ss) \o ConcatAll(Tail(ss))

\* const refKeys = refDict ? Object.keys(refDict) : []
RefKeys(ref, ns) ==
  LET refDict == NsGet(ref, ns) IN IF Falsy(refDict) THEN <<>> ELSE ObjectKeys(refDict)

\* Mutation: the loop over the locales is the outer one.
Validated_LocaleMajor(layout, ref) ==
  LET namespaces == SortNs(DOMAIN ref)
      round(i) ==
        ConcatAll([n \in 1..Len(namespaces) |->
          PairIssues(layout[i].loc, namespaces[n],
                     NsGet(layout[i].nsMap, namespaces[n]),
                     RefKeys(ref, namespaces[n]))])
  IN [namespaces |-> namespaces,
      orderByNs |-> [ns \in DOMAIN ref |-> RefKeys(ref, ns)],
      issues |-> ConcatAll([i \in 1..Len(layout) |-> round(i)])]

\* validateAndOrder past its precondition, ref being the reference locale's
\* Map: the namespace list, the order map and the issues of the two loops.
Validated(layout, ref) ==
  LET namespaces == SortNs(DOMAIN ref)
      round(ns) ==
        ConcatAll([i \in 1..Len(layout) |->
          PairIssues(layout[i].loc, ns, NsGet(layout[i].nsMap, ns),
                     RefKeys(ref, ns))])
  IN [namespaces |-> namespaces,
      orderByNs |-> [ns \in DOMAIN ref |-> RefKeys(ref, ns)],
      issues |-> ConcatAll([n \in 1..Len(namespaces) |-> round(namespaces[n])])]

\* Mutation: an absent reference locale is taken for one without namespaces.
ValidateAndOrder_NoThrow(layout, refLocale) ==
  LET ref == LocalesGet(layout, refLocale) IN
  IF Falsy(ref) THEN <<"returned", Validated(layout, <<>>)>>
  ELSE <<"returned", Validated(layout, ref.nsMap)>>

\* validateAndOrder(layout, refLocale)
ValidateAndOrder(layout, refLocale) ==
  LET ref == LocalesGet(layout, refLocale) IN
  IF Falsy(ref)
  THEN <<"threw", <<"Reference locale not found in input", refLocale>>>>
  ELSE <<"returned", Validated(layout, ref.nsMap)>>

\* Mutation: namespaces the reference locale lacks are deleted from the Maps.
LayoutAfter_Pruned(layout, refLocale) ==
  LET ref == LocalesGet(layout, refLocale)
      keep == IF Falsy(ref) THEN {} ELSE DOMAIN ref.nsMap
  IN [i \in 1..Len(layout) |->
       [loc |-> layout[i].loc,
        nsMap |-> [ns \in DOMAIN layout[i].nsMap \cap keep |-> layout[i].nsMap[ns]]]]

\* The layout after validateAndOrder: it only reads the Maps and dictionaries
\* (get, keys(), Object.keys, iteration) and sorts a copy of the namespaces.
LayoutAfter(layout, refLocale) == layout

\* const res = validateAndOrder(layout, opts.refLocale)
CallValidate ==
  /\ input.fn = "validateAndOrder" /\ output = <<"none">>
  /\ output' = ValidateAndOrder(input.layout, input.refLocale)
  /\ input' = [input EXCEPT !.layout = LayoutAfter(input.layout, input.refLocale)]
  /\ UNCHANGED <<coreVars, solidVars, other>>

InitGen ==
  /\ cache = NewInstance.cache
  /\ attempts = NewInstance.attempts
  /\ calls = NewInstance.calls
  /\ NoSolid
  /\ NoOther
  /\ \E n \in 0..Cardinality(GenLocales) :
       \E ls \in Arrangements(GenLocales, n) : \E ms \in [1..n -> NsMaps] :
         \E r \in GenLocales :
           input = [fn |-> "validateAndOrder", layout |-> Layout(ls, ms),
                    refLocale |-> r]
  /\ output = <<"none">>

NextGen == CallValidate

SpecGen == InitGen /\ [][NextGen]_vars

\* The issues reported for the pair (loc, ns).
IssuesFor(loc, ns) ==
  SelectSeq(output[2].issues, LAMBDA i : i.locale = loc /\ i.namespace = ns)

\* The namespaces of the reference locale, when the layout has it.
RefNamespaces ==
  LET ref == LocalesGet(input.layout, input.refLocale)
  IN IF Falsy(ref) THEN {} ELSE DOMAIN ref.nsMap

\* C20: when a locale of the layout lacks a namespace the reference locale
\* has, the issue list holds exactly one issue for that (locale, namespace)
\* pair, and it is 'Missing namespace': no count and no order issue.
C20_MissingNamespace ==
  output[1] = "returned" =>
    \A i \in 1..Len(input.layout) : \A ns \in RefNamespaces :
      ns \notin DOMAIN input.layout[i].nsMap =>
        IssuesFor(input.layout[i].loc, ns) =
          <<Issue(input.layout[i].loc, ns, <<"Missing namespace">>)>>

\* A locale lacks a namespace for which the reference has keys, and has
\* another namespace whose keys disagree with the reference's.
C20_Witness ==
  /\ output[1] = "returned"
  /\ \E i \in 1..Len(input.layout) : \E ns, ns2 \in RefNamespaces :
       /\ ns \notin DOMAIN input.layout[i].nsMap
       /\ output[2].orderByNs[ns] # <<>>
       /\ Len(IssuesFor(input.layout[i].loc, ns)) = 1
       /\ Len(IssuesFor(input.layout[i].loc, ns2)) = 2

\* The layout entries, and the dictionary entry i has for namespace ns.
Entries == 1..Len(input.layout)
PairDict(i, ns) == NsGet(input.layout[i].nsMap, ns)

\* The issues of a pair that report a count, or an index.
CountIssuesFor(loc, ns) ==
  SelectSeq(IssuesFor(loc, ns), LAMBDA it : it.message[1] = "Key count mismatch: got")
OrderIssuesFor(loc, ns) ==
  SelectSeq(IssuesFor(loc, ns), LAMBDA it : it.message[1] = "Order mismatch at index")

\* The indices of the canonical order at which keys has another name, or none.
MismatchAt(keys, refKeys) ==
  {j \in 0..(Len(refKeys) - 1) : j >= Len(keys) \/ keys[j + 1] # refKeys[j + 1]}

\* The name as the message prints it: 'undefined' past the end of keys.
NameAt(keys, j) == IF j < Len(keys) THEN keys[j + 1] ELSE "undefined"

\* C21: for a pair whose dictionary has, at some index of the canonical order,
\* another name than the canonical one, the issue list holds exactly one order
\* issue for the pair; it reports the lowest such index and the two names at
\* that index (no issue for any later index).
C21_FirstMismatchOnly ==
  output[1] = "returned" =>
    \A i \in Entries : \A ns \in RefNamespaces :
      LET d == PairDict(i, ns)
          loc == input.layout[i].loc
          refKeys == output[2].orderByNs[ns]
      IN ~Falsy(d) =>
           LET keys == ObjectKeys(d)
               diff == MismatchAt(keys, refKeys)
           IN diff # {} =>
                \E j \in diff :
                  /\ \A q \in diff : j <= q
                  /\ OrderIssuesFor(loc, ns) =
                       <<Issue(loc, ns, <<"Order mismatch at index", j,
                                          NameAt(keys, j), refKeys[j + 1]>>)>>

\* A pair differs from the canonical order at index 0 and at index 1, and one
\* order issue, for index 0, is reported.
C21_Witness ==
  /\ output[1] = "returned"
  /\ \E i \in Entries : \E ns \in RefNamespaces :
       /\ ~Falsy(PairDict(i, ns))
       /\ {0, 1} \subseteq MismatchAt(ObjectKeys(PairDict(i, ns)), output[2].orderByNs[ns])
       /\ Len(ObjectKeys(PairDict(i, ns))) = 2
       /\ Len(OrderIssuesFor(input.layout[i].loc, ns)) = 1
       /\ OrderIssuesFor(input.layout[i].loc, ns)[1].message[2] = 0

\* C22: for a pair whose dictionary has another number of keys than the
\* canonical order, the issue list holds exactly one count issue for the pair,
\* stating the dictionary's count and the canonical count, and the order
\* comparison is made all the same: an order issue follows exactly when the
\* names differ at some canonical index.
C22_CountThenOrder ==
  output[1] = "returned" =>
    \A i \in Entries : \A ns \in RefNamespaces :
      LET d == PairDict(i, ns)
          loc == input.layout[i].loc
          refKeys == output[2].orderByNs[ns]
      IN (~Falsy(d) /\ Len(ObjectKeys(d)) # Len(refKeys)) =>
           /\ CountIssuesFor(loc, ns) =
                <<Issue(loc, ns, <<"Key count mismatch: got", Len(ObjectKeys(d)),
                                   "expected", Len(refKeys)>>)>>
           /\ Len(OrderIssuesFor(loc, ns)) =
                IF MismatchAt(ObjectKeys(d), refKeys) = {} THEN 0 ELSE 1

\* A pair with fewer keys than the canonical order, whose first name differs
\* too, got the count issue and then an order issue.
C22_Witness ==
  /\ output[1] = "returned"
  /\ \E i \in Entries : \E ns \in RefNamespaces :
       /\ ~Falsy(PairDict(i, ns))
       /\ Len(ObjectKeys(PairDict(i, ns))) = 1
       /\ Len(output[2].orderByNs[ns]) = 2
       /\ Len(CountIssuesFor(input.layout[i].loc, ns)) = 1
       /\ Len(OrderIssuesFor(input.layout[i].loc, ns)) = 1
       /\ OrderIssuesFor(input.layout[i].loc, ns)[1].message[2] = 0

\* C23: for a locale of the layout and a namespace of the reference locale,
\* the issue list holds no issue for the pair exactly when the locale has a
\* dictionary for the namespace and its key sequence is the canonical one:
\* same count, same names, same order.
C23_NoIssueIffEqual ==
  output[1] = "returned" =>
    \A i \in Entries : \A ns \in RefNamespaces :
      LET d == PairDict(i, ns) IN
      IssuesFor(input.layout[i].loc, ns) = <<>>
        <=> /\ ns \in DOMAIN input.layout[i].nsMap
            /\ ~Falsy(d)
            /\ ObjectKeys(d) = output[2].orderByNs[ns]

\* A locale other than the reference has the two canonical keys in canonical
\* order and no issue, while it has issues for another namespace.
C23_Witness ==
  /\ output[1] = "returned"
  /\ \E i \in Entries : \E ns, ns2 \in RefNamespaces :
       /\ input.layout[i].loc # input.refLocale
       /\ ~Falsy(PairDict(i, ns))
       /\ Len(output[2].orderByNs[ns]) = 2
       /\ IssuesFor(input.layout[i].loc, ns) = <<>>
       /\ IssuesFor(input.layout[i].loc, ns2) # <<>>

C25_SameNamespaces ==
  output[1] = "returned" =>
    ((\E i \in Entries : DOMAIN input.layout[i].nsMap # RefNamespaces)
       => output[2].issues # <<>>)

\* The dictionary of the reference locale for a namespace it has.
RefDict(ns) == LocalesGet(input.layout, input.refLocale).nsMap[ns]

\* C26: for each namespace of the reference locale the canonical order is the
\* sequence of the keys of the reference dictionary in insertion order (the
\* order of the JSON file), whatever the other locales hold.
C26_InsertionOrder ==
  output[1] = "returned" =>
    \A ns \in RefNamespaces :
      ~Falsy(RefDict(ns)) => output[2].orderByNs[ns] = RefDict(ns).keys

\* Where an issue belongs: the position of its namespace in the namespace
\* list, of its locale in the layout, and of its kind in the loop body.
NsPos(it) ==
  CHOOSE n \in 1..Len(output[2].namespaces) : output[2].namespaces[n] = it.namespace
LocPos(it) == CHOOSE i \in Entries : input.layout[i].loc = it.locale
KindPos(it) ==
  IF it.message[1] = "Order mismatch at index" THEN 2
  ELSE IF it.message[1] = "Key count mismatch: got" THEN 1 ELSE 0

\* Issue a comes before issue b in discovery order.
Before(a, b) ==
  \/ NsPos(a) < NsPos(b)
  \/ NsPos(a) = NsPos(b) /\ LocPos(a) < LocPos(b)
  \/ NsPos(a) = NsPos(b) /\ LocPos(a) = LocPos(b) /\ KindPos(a) < KindPos(b)

\* C28: the issue list is in discovery order: by namespace as the sorted
\* namespace list has them, within a namespace by locale as the layout
\* iterates them (the reference locale too), and for one pair the count issue
\* before the order issue.
C28_DiscoveryOrder ==
  output[1] = "returned" =>
    \A p, q \in 1..Len(output[2].issues) :
      p < q => Before(output[2].issues[p], output[2].issues[q])

\* Issues for both namespaces and both locales, the reference locale among
\* them, and a count issue followed by an order issue for one pair.
C28_Witness ==
  /\ output[1] = "returned"
  /\ LET is == output[2].issues IN
     /\ \E p, q \in 1..Len(is) : is[p].namespace # is[q].namespace
     /\ \E p \in 1..Len(is) : is[p].locale = input.refLocale
     /\ \E p \in 1..Len(is) : is[p].locale # input.refLocale
     /\ \E p \in 1..(Len(is) - 1) :
          /\ KindPos(is[p]) = 1 /\ KindPos(is[p + 1]) = 2
          /\ is[p].locale = is[p + 1].locale
     /\ input.layout[1].loc # input.refLocale

Effect(kind, what) == [kind |-> kind, what |-> what]

\* emitAll(outputDir, layout, res, locales): writes the artifacts of res.
EmitAll(layout, res, locales) ==
  <<Effect("emitAll", <<res, locales>>)>>

\* console.error(`- [${it.locale}/${it.namespace}] ${it.message}`)
IssueLine(it) == Effect("stderr", <<"-", it.locale, it.namespace, it.message>>)

\* if (res.issues.length) { console.error(...); for (const it of res.issues)
\* console.error(...) }
Report(issues) ==
  IF Len(issues) # 0
  THEN <<Effect("stderr", <<"Validation issues detected:">>)>>
       \o [n \in 1..Len(issues) |-> IssueLine(issues[n])]
  ELSE <<>>

\* process.exitCode after the if: 1 when set, else the default 0.
ExitCode(issues) == IF Len(issues) # 0 THEN 1 ELSE 0

\* The locales handed on to emitAll: those loadLayout was asked for.
Requested(layout) == [i \in 1..Len(layout) |-> layout[i].loc]

\* Mutation: artifacts are emitted only when validation found nothing.
Main_EmitIfClean(r, layout, locales) ==
  IF r[1] = "threw"
  THEN <<"rejected", [effects |-> <<>>, exitCode |-> 0, error |-> r[2]]>>
  ELSE <<"done",
         [effects |-> Report(r[2].issues)
                      \o (IF Len(r[2].issues) # 0 THEN <<>>
                          ELSE EmitAll(layout, r[2], locales))
                      \o <<Effect("stdout", <<"Generated to:">>)>>,
          exitCode |-> ExitCode(r[2].issues),
          res |-> r[2]]>>

\* main() of the command line, r being the outcome of its call of
\* validateAndOrder and locales the list of --locales: the effects in order, process.exitCode, and how the
\* promise of main settles.
Main(r, layout, locales) ==
  IF r[1] = "threw"
  THEN <<"rejected", [effects |-> <<>>, exitCode |-> 0, error |-> r[2]]>>
  ELSE <<"done",
         [effects |-> Report(r[2].issues)
                      \o EmitAll(layout, r[2], locales)
                      \o <<Effect("stdout", <<"Generated to:">>)>>,
          exitCode |-> ExitCode(r[2].issues),
          res |-> r[2]]>>

\* generate(opts), r being the outcome of its call of validateAndOrder and
\* locales opts.locales.
Generate(r, layout, locales) ==
  IF r[1] = "threw"
  THEN <<"rejected", [effects |-> <<>>, exitCode |-> 0, error |-> r[2]]>>
  ELSE <<"done",
         [effects |-> EmitAll(layout, r[2], locales),
          exitCode |-> 0,
          res |-> r[2]]>>

\* The continuation of main after await loadLayout(...).
RunMain ==
  /\ input.fn = "main" /\ output = <<"none">>
  /\ \E r \in {ValidateAndOrder(input.layout, input.refLocale)} :
       output' = Main(r, input.layout, Requested(input.layout))
  /\ input' = [input EXCEPT !.layout = LayoutAfter(input.layout, input.refLocale)]
  /\ UNCHANGED <<coreVars, solidVars, other>>

\* The continuation of generate after await loadLayout(...).
RunGenerate ==
  /\ input.fn = "generate" /\ output = <<"none">>
  /\ \E r \in {ValidateAndOrder(input.layout, input.refLocale)} :
       output' = Generate(r, input.layout, Requested(input.layout))
  /\ input' = [input EXCEPT !.layout = LayoutAfter(input.layout, input.refLocale)]
  /\ UNCHANGED <<coreVars, solidVars, other>>

InitRun ==
  /\ cache = NewInstance.cache
  /\ attempts = NewInstance.attempts
  /\ calls = NewInstance.calls
  /\ NoSolid
  /\ NoOther
  /\ \E n \in 0..Cardinality(GenLocales) :
       \E ls \in Arrangements(GenLocales, n) : \E ms \in [1..n -> NsMaps] :
         \E r \in GenLocales : \E fn \in {"main", "generate"} :
           input = [fn |-> fn, layout |-> Layout(ls, ms), refLocale |-> r]
  /\ output = <<"none">>

NextRun == RunMain \/ RunGenerate

SpecRun == InitRun /\ [][NextRun]_vars

\* The effects of a finished run, and those of one kind.
Effects == output[2].effects
EffectsOf(kind) == SelectSeq(Effects, LAMBDA e : e.kind = kind)

\* C27: when the layout has no entry for the reference locale,
\* validateAndOrder throws and returns nothing (no issue, no order, no
\* namespace list), and generate and main end rejected with that error
\* without a call of emitAll or any other effect.
C27_AbsentReference ==
  (output # <<"none">> /\ Falsy(LocalesGet(input.layout, input.refLocale))) =>
    /\ ValidateAndOrder(input.layout, input.refLocale)
         = <<"threw", <<"Reference locale not found in input", input.refLocale>>>>
    /\ output[1] = "rejected"
    /\ output[2].error = <<"Reference locale not found in input", input.refLocale>>
    /\ "res" \notin DOMAIN output[2]
    /\ Effects = <<>>

\* A run over a layout that has the other locale, with files, but not the
\* reference locale, has ended.
C27_Witness ==
  /\ output[1] = "rejected"
  /\ Len(input.layout) = 1
  /\ input.layout[1].loc # input.refLocale
  /\ DOMAIN input.layout[1].nsMap = Namespaces

\* C30: a run in which validateAndOrder returned calls emitAll exactly once,
\* with the result of the validation, whether or not there are issues; main
\* prints the heading and then one line per issue, in order, on stderr when
\* there are issues and nothing otherwise, and process.exitCode is 1 exactly
\* when the issue list is not empty.
C30_EmitAlways ==
  output[1] = "done" =>
    LET issues == output[2].res.issues IN
    /\ EffectsOf("emitAll") = EmitAll(input.layout, output[2].res, Requested(input.layout))
    /\ input.fn = "main" =>
         /\ EffectsOf("stderr") =
              IF issues = <<>> THEN <<>>
              ELSE <<Effect("stderr", <<"Validation issues detected:">>)>>
                   \o [n \in 1..Len(issues) |-> IssueLine(issues[n])]
         /\ output[2].exitCode # 0 <=> issues # <<>>
         /\ Effects[Len(Effects)] = Effect("stdout", <<"Generated to:">>)

\* main has finished a run with three issues or more: they are printed, the
\* artifacts are emitted once and the exit code is 1.
C30_Witness ==
  /\ output[1] = "done" /\ input.fn = "main"
  /\ Len(output[2].res.issues) >= 3
  /\ Len(EffectsOf("stderr")) = Len(output[2].res.issues) + 1
  /\ Len(EffectsOf("emitAll")) = 1
  /\ output[2].exitCode = 1

(***************************************************************************)
(* gen: loadLayout over the input directory                                *)
(***************************************************************************)

MaxFiles == 2   \* most files under the input directory

\* What a file holds: a JSON object, bytes readFileSync or JSON.parse throws
\* on (Malformed), or the entries of a directory.
Malformed == [json |-> "malformed"]

\* A directory entry: its name, in the parts the code takes it apart into, and
\* what it holds.  <<"auth", ".json">> is auth.json, <<"en", "auth", ".json">>
\* is en.auth.json and <<"en">> is en.
File(name, content) == [name |-> name, content |-> content]

\* f.endsWith(".json")
EndsWithJson(name) == name[Len(name)] = ".json"

\* basename(f, ".json") of a name that ends with .json
Basename(name) == name[1]

\* f.startsWith(`${loc}.`)
StartsWith(name, loc) == Len(name) > 1 /\ name[1] = loc

\* f.slice(loc.length + 1, f.length - ".json".length)
SliceNs(name) == name[2]

\* readJson(file): the parsed object, or the error of readFileSync or
\* JSON.parse.
ReadJson(dir, f) ==
  IF f.content.json = "object" THEN <<"returned", f.content>>
  ELSE <<"threw", <<"readJson", dir, f.name>>>>

\* nsMap.set(ns, d)
MapSet(nsMap, ns, d) ==
  [k \in DOMAIN nsMap \cup {ns} |-> IF k = ns THEN d ELSE nsMap[k]]

\* The loop over readdirSync(nested) inside try { } catch {}: an error of
\* readJson leaves the loop and is swallowed by the empty catch.
RECURSIVE NestedLoop(_, _, _, _, _)

NestedLoop(dir, files, i, nsMap, found) ==
  IF i > Len(files) THEN [nsMap |-> nsMap, found |-> found]
  ELSE IF ~EndsWithJson(files[i].name)
  THEN NestedLoop(dir, files, i + 1, nsMap, found)
  ELSE IF ReadJson(dir, files[i])[1] = "threw"
  THEN [nsMap |-> nsMap, found |-> found]
  ELSE NestedLoop(dir, files, i + 1,
                  MapSet(nsMap, Basename(files[i].name), ReadJson(dir, files[i])[2]),
                  TRUE)

\* The loop over readdirSync(inputDir): an error of readJson leaves
\* loadLayout.
RECURSIVE FlatLoop(_, _, _, _)

FlatLoop(root, loc, i, nsMap) ==
  IF i > Len(root) THEN <<"returned", nsMap>>
  ELSE IF ~(StartsWith(root[i].name, loc) /\ EndsWithJson(root[i].name))
  THEN FlatLoop(root, loc, i + 1, nsMap)
  ELSE IF ReadJson(".", root[i])[1] = "threw"
  THEN ReadJson(".", root[i])
  ELSE FlatLoop(root, loc, i + 1,
                MapSet(nsMap, SliceNs(root[i].name), ReadJson(".", root[i])[2]))

\* The body of for (const loc of locales) up to layout.locales.set: the try
\* block, entered when existsSync(nested) && statSync(nested).isDirectory(),
\* and then if (!found) the flat loop.
NsMapOf(fs, loc) ==
  LET nested == IF fs.nested[loc].kind = "dir"
                THEN NestedLoop(loc, fs.nested[loc].files, 1, <<>>, FALSE)
                ELSE [nsMap |-> <<>>, found |-> FALSE]
  IN IF nested.found THEN <<"returned", nested.nsMap>>
     ELSE FlatLoop(fs.root, loc, 1, nested.nsMap)

\* Mutation: a locale without namespace files gets no entry.
LocalesSet_SkipEmpty(layout, loc, nsMap) ==
  IF DOMAIN nsMap = {} THEN layout
  ELSE IF \E i \in 1..Len(layout) : layout[i].loc = loc
  THEN [i \in 1..Len(layout) |->
         IF layout[i].loc = loc THEN [loc |-> loc, nsMap |-> nsMap] ELSE layout[i]]
  ELSE Append(layout, [loc |-> loc, nsMap |-> nsMap])

\* layout.locales.set(loc, nsMap): a new key goes to the end, a key already
\* present keeps its place and takes the new value.
LocalesSet(layout, loc, nsMap) ==
  IF \E i \in 1..Len(layout) : layout[i].loc = loc
  THEN [i \in 1..Len(layout) |->
         IF layout[i].loc = loc THEN [loc |-> loc, nsMap |-> nsMap] ELSE layout[i]]
  ELSE Append(layout, [loc |-> loc, nsMap |-> nsMap])

RECURSIVE LoadLoop(_, _, _, _)

LoadLoop(fs, locales, i, layout) ==
  IF i > Len(locales) THEN <<"returned", layout>>
  ELSE IF NsMapOf(fs, locales[i])[1] = "threw" THEN NsMapOf(fs, locales[i])
  ELSE LoadLoop(fs, locales, i + 1,
                LocalesSet(layout, locales[i], NsMapOf(fs, locales[i])[2]))

\* loadLayout(inputDir, locales): how its promise settles.
LoadLayout(fs, locales) == LoadLoop(fs, locales, 1, <<>>)

\* const layout = await loadLayout(inputDir, locales): the call, up to the
\* settling of its promise.
AwaitLoadLayout ==
  /\ input.fn \in {"main", "generate"}
  /\ input.loaded = <<"none">> /\ output = <<"none">>
  /\ input' = [input EXCEPT !.loaded = LoadLayout(input.fs, input.locales)]
  /\ UNCHANGED <<coreVars, solidVars, other, output>>

\* The rest of main: it ends rejected when loadLayout failed, and goes on to
\* validateAndOrder otherwise.
ResumeMain ==
  /\ input.fn = "main" /\ input.loaded[1] # "none" /\ output = <<"none">>
  /\ IF input.loaded[1] = "threw"
     THEN output' = <<"rejected",
                      [effects |-> <<>>, exitCode |-> 0, error |-> input.loaded[2]]>>
     ELSE \E r \in {ValidateAndOrder(input.loaded[2], input.refLocale)} :
            output' = Main(r, input.loaded[2], input.locales)
  /\ UNCHANGED <<coreVars, solidVars, other, input>>

\* The rest of generate.
ResumeGenerate ==
  /\ input.fn = "generate" /\ input.loaded[1] # "none" /\ output = <<"none">>
  /\ IF input.loaded[1] = "threw"
     THEN output' = <<"rejected",
                      [effects |-> <<>>, exitCode |-> 0, error |-> input.loaded[2]]>>
     ELSE \E r \in {ValidateAndOrder(input.loaded[2], input.refLocale)} :
            output' = Generate(r, input.loaded[2], input.locales)
  /\ UNCHANGED <<coreVars, solidVars, other, input>>

\* The listings readdirSync may give for <inputDir>/<locale>, and the
\* <locale>.*.json files of the input directory, in the order of readdirSync.
JsonListings(prefix) ==
  UNION {{[i \in 1..n |-> File(prefix \o <<q[i], ".json">>, c[i])] :
            q \in Arrangements(Namespaces, n),
            c \in [1..n -> {JsonObject(<<"a">>), JsonObject(<<"b">>), Malformed}]} :
         n \in 0..Cardinality(Namespaces)}

NestedDirs ==
  {[kind |-> "absent", files |-> <<>>], [kind |-> "file", files |-> <<>>]}
  \cup {[kind |-> "dir", files |-> l] : l \in JsonListings(<<>>)}
  \cup {[kind |-> "dir", files |-> <<File(<<"notes", ".md">>, Malformed)>> \o l] :
          l \in JsonListings(<<>>)}

\* readdirSync(inputDir): the locale directories and the flat files.
Root(dEn, fEn, dId, fId) ==
  (IF dEn.kind = "absent" THEN <<>> ELSE <<File(<<"en">>, [json |-> "directory"])>>)
  \o fEn
  \o (IF dId.kind = "absent" THEN <<>> ELSE <<File(<<"id">>, [json |-> "directory"])>>)
  \o fId

InitLoad ==
  /\ cache = NewInstance.cache
  /\ attempts = NewInstance.attempts
  /\ calls = NewInstance.calls
  /\ NoSolid
  /\ NoOther
  /\ \E dEn \in NestedDirs :
       \E fEn \in {l \in JsonListings(<<"en">>) : Len(dEn.files) + Len(l) <= MaxFiles} :
         \E dId \in {d \in NestedDirs :
                       Len(dEn.files) + Len(fEn) + Len(d.files) <= MaxFiles} :
           \E fId \in {l \in JsonListings(<<"id">>) :
                         Len(dEn.files) + Len(fEn) + Len(dId.files) + Len(l) <= MaxFiles} :
             \E n \in 0..Cardinality(GenLocales) : \E ls \in [1..n -> GenLocales] :
               \E r \in GenLocales : \E fn \in {"main", "generate"} :
                 input = [fn |-> fn,
                          fs |-> [nested |-> [loc \in GenLocales |->
                                               IF loc = "en" THEN dEn ELSE dId],
                                  root |-> Root(dEn, fEn, dId, fId)],
                          locales |-> ls, refLocale |-> r, loaded |-> <<"none">>]
  /\ output = <<"none">>

NextLoad == AwaitLoadLayout \/ ResumeMain \/ ResumeGenerate

SpecLoad == InitLoad /\ [][NextLoad]_vars

\* The .json files of <inputDir>/<loc>, in listing order, and the flat files
\* <loc>.*.json of the input directory.
NestedJson(loc) ==
  IF input.fs.nested[loc].kind = "dir"
  THEN SelectSeq(input.fs.nested[loc].files, LAMBDA f : EndsWithJson(f.name))
  ELSE <<>>
FlatJson(loc) ==
  SelectSeq(input.fs.root, LAMBDA f : StartsWith(f.name, loc) /\ EndsWithJson(f.name))
AnyBad(files) == \E i \in 1..Len(files) : files[i].content.json # "object"

\* The requested locales.
RequestedSet == {input.locales[i] : i \in 1..Len(input.locales)}

\* C31: when a locale file that loadLayout reads is unreadable or malformed
\* (one in the nested directory of a requested locale, which it reads first,
\* or a flat one when the nested directory has no .json file), loadLayout
\* fails with the error of that read, no layout is returned, and the run ends
\* rejected with that error without validation, output or emission.
C31_MalformedIsFatal ==
  (/\ input.loaded[1] # "none"
   /\ \E loc \in RequestedSet :
        \/ AnyBad(NestedJson(loc))
        \/ NestedJson(loc) = <<>> /\ AnyBad(FlatJson(loc))) =>
    /\ input.loaded[1] = "threw"
    /\ input.loaded[2][1] = "readJson"
    /\ output # <<"none">> =>
         /\ output[1] = "rejected"
         /\ output[2].error = input.loaded[2]
         /\ output[2].effects = <<>>

\* The entry of loc in the layout loadLayout returned.
LoadedMap(loc) == LocalesGet(input.loaded[2], loc).nsMap

\* C32: in a layout loadLayout returned, the namespace map of a locale whose
\* nested directory has namespace files holds entries of those files only
\* (the flat files are ignored), and that of any other locale holds exactly
\* its flat files; no map has entries of both conventions.
C32_OneConvention ==
  input.loaded[1] = "returned" =>
    LET \* Every entry of nsMap is what one of the files holds under that
        \* namespace, the part of the file's name at position at.
        FromFiles(nsMap, files, at) ==
          \A ns \in DOMAIN nsMap :
            \E i \in 1..Len(files) :
              files[i].name[at] = ns /\ files[i].content = nsMap[ns]
    IN
    \A loc \in RequestedSet :
      /\ NestedJson(loc) # <<>> =>
           FromFiles(LoadedMap(loc), NestedJson(loc), 1)
      /\ NestedJson(loc) = <<>> =>
           /\ FromFiles(LoadedMap(loc), FlatJson(loc), 2)
           /\ \A i \in 1..Len(FlatJson(loc)) :
                FlatJson(loc)[i].name[2] \in DOMAIN LoadedMap(loc)
      /\ \/ FromFiles(LoadedMap(loc), NestedJson(loc), 1)
         \/ FromFiles(LoadedMap(loc), FlatJson(loc), 2)

(***************************************************************************)
(* createSolidLokat: loads that complete out of order                      *)
(***************************************************************************)

\* C33: whenever no load is in flight and the load of the most recent
\* setLocale call succeeded, the dictionary snapshot is the array that call
\* resolved with, and the locale is that call's.
C33_LatestWins ==
  LET SetOps == {o \in OpIds : ops[o].kind = "set"}
      LastSet == CHOOSE o \in SetOps : \A q \in SetOps : q <= o
      NoLoadInFlight ==
        /\ \A f \in FrameIds : frames[f].st # "awaiting"
        /\ \A p \in PromiseIds : promises[p].st # "pending"
  IN (SetOps # {} /\ NoLoadInFlight /\ frames[ops[LastSet].frame].st = "ok") =>
       /\ locale = ops[LastSet].key
       /\ currentDict = frames[ops[LastSet].frame].val
       /\ dictSignal = currentDict

(***************************************************************************)
(* createLokat: what the failure handler deletes                           *)
(***************************************************************************)

\* C34: at the step where the catch handler of a failed attempt for K runs,
\* the cache entry for K is that attempt's own promise, and the handler
\* removes that entry and no other.
C34_OwnEntryOnly ==
  [][\A a \in AttemptIds :
       (attempts[a].w = "pending" /\ attempts'[a].w = "err") =>
         /\ cache[attempts[a].key] = a
         /\ cache' = [cache EXCEPT ![attempts[a].key] = NoEntry]]_vars

\* Two attempts for one key have failed, the later one made after the handler
\* of the earlier had run, while the entry of the other key is still cached.
C34_Witness ==
  \E a, b \in AttemptIds :
    /\ a < b /\ attempts[a].key = attempts[b].key
    /\ attempts[a].w = "err" /\ attempts[b].w = "err"
    /\ cache[attempts[a].key] = NoEntry
    /\ \E k \in Locales : k # attempts[a].key /\ cache[k] # NoEntry

(***************************************************************************)
(* createSolidLokat: the onError hook                                      *)
(***************************************************************************)

\* The onError calls made for the setLocale / preload call o (0: the
\* constructor).
ErrorCalls(o) == {n \in LogIds : log[n].fn = "onError" /\ log[n].by = o}

\* C35: onError has been called exactly once for each setLocale call whose
\* promise has rejected, with the error and the locale of that call, and not
\* at all for any other setLocale call, for a preload or for the
\* constructor's load.
C35_OnErrorPerSet ==
  /\ \A o \in OpIds :
       IF ops[o].kind = "set" /\ frames[ops[o].frame].out = "err"
       THEN /\ Cardinality(ErrorCalls(o)) = 1
            /\ \A n \in ErrorCalls(o) :
                 /\ log[n].arg = ops[o].key
                 /\ log[n].err = promises[ops[o].promise].val
       ELSE ErrorCalls(o) = {}
  /\ ErrorCalls(0) = {}

\* Two setLocale calls shared one load, it failed, and the hook ran for each.
C35_Witness ==
  \E o, q \in OpIds :
    /\ o < q /\ ops[o].kind = "set" /\ ops[q].kind = "set"
    /\ ops[o].promise = ops[q].promise
    /\ ErrorCalls(o) # {} /\ ErrorCalls(q) # {}
    /\ locale = ops[q].key

(***************************************************************************)
(* gen: validateAndOrder, surplus and lacking keys                         *)
(***************************************************************************)

\* keys and refKeys have the same names at the indices both have.
SamePrefix(keys, refKeys) ==
  \A j \in 1..Len(keys) : j <= Len(refKeys) => keys[j] = refKeys[j]

\* C36: the issue list holds at most two issues for a (locale, namespace)
\* pair; a dictionary that has the canonical names at every canonical index
\* and more keys after them gets the count issue alone, and one with fewer
\* keys, all of them the canonical names of their indices, gets the count
\* issue and then one order issue, at the index equal to its number of keys,
\* naming 'undefined' and the canonical name of that index.
C36_SurplusAndLack ==
  output[1] = "returned" =>
    \A i \in Entries : \A ns \in RefNamespaces :
      LET d == PairDict(i, ns)
          loc == input.layout[i].loc
          refKeys == output[2].orderByNs[ns]
          count(keys) == Issue(loc, ns, <<"Key count mismatch: got", Len(keys),
                                          "expected", Len(refKeys)>>)
      IN /\ Len(IssuesFor(loc, ns)) <= 2
         /\ (~Falsy(d) /\ SamePrefix(ObjectKeys(d), refKeys)) =>
              LET keys == ObjectKeys(d) IN
              /\ Len(keys) > Len(refKeys) => IssuesFor(loc, ns) = <<count(keys)>>
              /\ Len(keys) < Len(refKeys) =>
                   IssuesFor(loc, ns) =
                     <<count(keys),
                       Issue(loc, ns, <<"Order mismatch at index", Len(keys),
                                        "undefined", refKeys[Len(keys) + 1]>>)>>

\* One locale has a key more than the canonical order in one namespace and a
\* key less in the other, the names it has being the canonical ones: one
\* issue for the first pair, two for the second.
C36_Witness ==
  /\ output[1] = "returned"
  /\ \E i \in Entries : \E ns, ms \in RefNamespaces :
       LET loc == input.layout[i].loc
           keysN == ObjectKeys(PairDict(i, ns))
           keysM == ObjectKeys(PairDict(i, ms))
       IN /\ ~Falsy(PairDict(i, ns)) /\ ~Falsy(PairDict(i, ms))
          /\ SamePrefix(keysN, output[2].orderByNs[ns])
          /\ SamePrefix(keysM, output[2].orderByNs[ms])
          /\ Len(keysN) = 2 /\ Len(output[2].orderByNs[ns]) = 1
          /\ Len(keysM) = 1 /\ Len(output[2].orderByNs[ms]) = 2
          /\ Len(IssuesFor(loc, ns)) = 1
          /\ Len(IssuesFor(loc, ms)) = 2
          /\ IssuesFor(loc, ms)[2].message[2] = 1

(***************************************************************************)
(* gen: the entries of the loaded layout                                   *)
(***************************************************************************)

\* C37: the layout loadLayout returned has one entry for each requested
\* locale and no other, the entries standing in the order of the request; a
\* requested locale without any namespace file has an entry with an empty
\* namespace map; and when the reference locale is among the requested ones,
\* validateAndOrder does not throw on that layout and the run does not end
\* rejected.
C37_EveryRequestedLocale ==
  input.loaded[1] = "returned" =>
    LET layout == input.loaded[2]
        \* The first place of loc in the requested list.
        FirstPos(loc) ==
          CHOOSE i \in 1..Len(input.locales) :
            /\ input.locales[i] = loc
            /\ \A j \in 1..Len(input.locales) : input.locales[j] = loc => i <= j
    IN
    /\ {layout[i].loc : i \in 1..Len(layout)} = RequestedSet
    /\ \A i, j \in 1..Len(layout) :
         i < j => /\ layout[i].loc # layout[j].loc
                  /\ FirstPos(layout[i].loc) < FirstPos(layout[j].loc)
    /\ \A loc \in RequestedSet :
         (NestedJson(loc) = <<>> /\ FlatJson(loc) = <<>>) =>
           /\ ~Falsy(LocalesGet(layout, loc))
           /\ DOMAIN LoadedMap(loc) = {}
    /\ input.refLocale \in RequestedSet =>
         /\ ValidateAndOrder(layout, input.refLocale)[1] = "returned"
         /\ output # <<"none">> => output[1] = "done"

\* A run is done in which the reference locale, asked for second, has no
\* file at all while the other locale has two: the layout has two entries, the
\* reference's with an empty map, and validation returned no namespace.
C37_Witness ==
  /\ input.loaded[1] = "returned" /\ output[1] = "done"
  /\ Len(input.locales) = 2 /\ input.locales[1] # input.locales[2]
  /\ input.refLocale = input.locales[2]
  /\ NestedJson(input.refLocale) = <<>> /\ FlatJson(input.refLocale) = <<>>
  /\ Len(input.loaded[2]) = 2
  /\ DOMAIN input.loaded[2][1].nsMap = Namespaces
  /\ DOMAIN input.loaded[2][2].nsMap = {}
  /\ output[2].res.namespaces = <<>>

====
